---------------------------- MODULE Spec2Model ----------------------------
(***************************************************************************)
(* Model of src/job_scraper.py: the JobScraper pipeline (fetch index page, *)
(* parse listing cards, existence check, detail fetch, summarization,      *)
(* categorization, insert) and the /scrape trigger that starts one thread  *)
(* per request.                                                            *)
(*                                                                         *)
(* Conventions.  A Python str is a sequence of one-character strings.  A   *)
(* Python value that may be None is None == <<>> or Some(v) == <<v>>.      *)
(***************************************************************************)
EXTENDS Naturals, Sequences, FiniteSets

VARIABLES
    collection,   \* self.collection: the documents of the store, in insertion order
    pc,           \* per run: the next external call of run_scraper, or its end
    job_list,     \* per run: job_list (line 139)
    job_index,    \* per run: position of the for loop of line 144 in job_list
    job_text,     \* per run: job_text (line 153)
    resumeAI,     \* per run: resumeAI (line 158)
    log,          \* per run and listing: the collaborator calls made and their results
    index_log,    \* per run: what the index fetch and the parse gave
    parse_in,     \* argument of a stand-alone extract_jobs_from_html call
    parse_out,    \* its result
    title_in,     \* argument of a stand-alone categorize_job call
    category_out  \* its result

vars == <<collection, pc, job_list, job_index, job_text, resumeAI,
          log, index_log, parse_in, parse_out, title_in, category_out>>

run_vars == <<collection, pc, job_list, job_index, job_text, resumeAI,
              log, index_log>>

(***************************************************************************)
(* Bounds of the model.                                                    *)
(***************************************************************************)
MaxRuns == 2

MaxLen == 3

Runs == 1..MaxRuns

(***************************************************************************)
(* Python values.                                                          *)
(***************************************************************************)
None == <<>>

Some(v) == <<v>>

\* bool(x) of a str-or-None: None and "" are falsy.
Truthy(opt) == opt # None /\ opt[1] # <<>>

NA == <<"N", "/", "A">>

Whitespace == {" ", "\n", "\t", "\r"}

RECURSIVE lstrip(_)
lstrip(s) ==
    IF s = <<>> THEN <<>>
    ELSE IF Head(s) \in Whitespace THEN lstrip(Tail(s)) ELSE s

RECURSIVE rstrip(_)
rstrip(s) ==
    IF s = <<>> THEN <<>>
    ELSE IF s[Len(s)] \in Whitespace THEN rstrip(SubSeq(s, 1, Len(s) - 1)) ELSE s

strip(s) == rstrip(lstrip(s))

\* s.split(sep) for a one-character sep: always at least one part.
RECURSIVE split(_, _)
split(s, sep) ==
    IF \A k \in DOMAIN s : s[k] # sep THEN <<s>>
    ELSE LET k == CHOOSE j \in DOMAIN s :
                      s[j] = sep /\ \A m \in 1..(j - 1) : s[m] # sep
         IN  <<SubSeq(s, 1, k - 1)>> \o split(SubSeq(s, k + 1, Len(s)), sep)

UpperChars ==
    <<"A","B","C","D","E","F","G","H","I","J","K","L","M","N","O","P","Q","R",
      "S","T","U","V","W","X","Y","Z","É","Ô">>

LowerChars ==
    <<"a","b","c","d","e","f","g","h","i","j","k","l","m","n","o","p","q","r",
      "s","t","u","v","w","x","y","z","é","ô">>

lower(s) ==
    [k \in DOMAIN s |->
        IF \E u \in DOMAIN UpperChars : UpperChars[u] = s[k]
        THEN LowerChars[CHOOSE u \in DOMAIN UpperChars : UpperChars[u] = s[k]]
        ELSE s[k]]

\* word in text
Contains(text, word) ==
    \E k \in 0..(Len(text) - Len(word)) :
        \A m \in 1..Len(word) : text[k + m] = word[m]

(***************************************************************************)
(* categorize_job (lines 33-50).                                           *)
(***************************************************************************)
categories ==
    <<
       [category |-> "Informatique / IT",
        keywords |-> <<
          <<"d","é","v","e","l","o","p","p","e","u","r">>,
          <<"i","t">>,
          <<"d","i","g","i","t","a","l">>,
          <<"l","o","g","i","c","i","e","l">>,
          <<"t","e","c","h","n","i","c","i","e","n">> >>],
       [category |-> "Finance / Comptabilité",
        keywords |-> <<
          <<"f","i","n","a","n","c","e">>,
          <<"c","o","m","p","t","a","b","l","e">>,
          <<"a","u","d","i","t">>,
          <<"g","e","s","t","i","o","n"," ","d","e","s"," ","r","i","s","q","u","e","s">> >>],
       [category |-> "Communication / Marketing",
        keywords |-> <<
          <<"c","o","m","m","u","n","i","c","a","t","i","o","n">>,
          <<"m","a","r","k","e","t","i","n","g">>,
          <<"p","u","b","l","i","c","i","t","é">> >>],
       [category |-> "Conseil / Stratégie",
        keywords |-> <<
          <<"c","o","n","s","u","l","t","a","n","t">>,
          <<"a","n","a","l","y","s","e">>,
          <<"c","o","n","s","e","i","l">>,
          <<"b","u","s","i","n","e","s","s">> >>],
       [category |-> "Transport / Logistique",
        keywords |-> <<
          <<"t","r","a","n","s","p","o","r","t">>,
          <<"l","o","g","i","s","t","i","q","u","e">>,
          <<"m","o","b","i","l","i","t","é">> >>],
       [category |-> "Ingénierie / BTP",
        keywords |-> <<
          <<"i","n","g","é","n","i","e","u","r">>,
          <<"t","e","c","h","n","i","c","i","e","n">>,
          <<"c","o","n","s","t","r","u","c","t","i","o","n">>,
          <<"c","h","a","n","t","i","e","r">> >>],
       [category |-> "Santé / Médical",
        keywords |-> <<
          <<"s","a","n","t","é">>,
          <<"h","ô","p","i","t","a","l">>,
          <<"m","é","d","e","c","i","n">>,
          <<"i","n","f","i","r","m","i","e","r">>,
          <<"p","h","a","r","m","a","c","i","e">> >>]
    >>

\* any(keyword in title_lower for keyword in keywords)
any_keyword_in(keywords, title_lower) ==
    \E w \in DOMAIN keywords : Contains(title_lower, keywords[w])

\* the for loop of lines 47-50 from the c-th item of the table on
RECURSIVE categorize_from(_, _)
categorize_from(title_lower, c) ==
    IF c > Len(categories) THEN "Autre"
    ELSE IF any_keyword_in(categories[c].keywords, title_lower)
         THEN categories[c].category
         ELSE categorize_from(title_lower, c + 1)

\* variant: a later item of the table overrides an earlier one
RECURSIVE categorize_last_from(_, _, _)
categorize_last_from(title_lower, c, found) ==
    IF c > Len(categories) THEN found
    ELSE categorize_last_from(title_lower, c + 1,
             IF any_keyword_in(categories[c].keywords, title_lower)
             THEN categories[c].category ELSE found)

categorize_job_last_match(title) == categorize_last_from(lower(title), 1, "Autre")

\* variant: falling out of the loop returns the loop variable
categorize_job_loop_variable(title) ==
    IF categorize_from(lower(title), 1) = "Autre"
    THEN categories[Len(categories)].category
    ELSE categorize_from(lower(title), 1)

categorize_job(title) == categorize_from(lower(title), 1)

(***************************************************************************)
(* The parsed markup.  A node is a div of class Cols3 (a listing group),   *)
(* a div of class Cols3_item (a listing card) with its first <p> and its   *)
(* first <a>, each None or present, or any other div.                      *)
(***************************************************************************)
Anchor(text, href) == [text |-> text, href |-> href]

Card(p, a) == [class |-> "Cols3_item", p |-> p, a |-> a, children |-> <<>>]

Group(children) == [class |-> "Cols3", p |-> None, a |-> None, children |-> children]

\* soup.find_all("div", class_=cls): every descendant of that class, in
\* document order, nested ones included.
RECURSIVE find_all(_, _)
find_all(nodes, cls) ==
    IF nodes = <<>> THEN <<>>
    ELSE LET n == Head(nodes)
         IN  (IF n.class = cls THEN <<n>> ELSE <<>>)
             \o find_all(n.children, cls)
             \o find_all(Tail(nodes), cls)

RECURSIVE Flatten(_)
Flatten(seqs) ==
    IF seqs = <<>> THEN <<>> ELSE Head(seqs) \o Flatten(Tail(seqs))

BaseUrl == <<"https://www.mediacongo.net/">>

\* Lines 69-84 for one job_card: the job, or the exception the lines raise.
ParseCard(job_card) ==
    LET title_element == job_card.p
        link_element == job_card.a
    IN  IF job_card.a = None
        THEN [exc |-> "AttributeError", jobs |-> <<>>]       \* line 70: None.text
        ELSE
        LET company_location == split(strip(job_card.a[1].text), "\n")
            title == IF title_element # None THEN strip(title_element[1]) ELSE NA
            company == IF Len(company_location) > 0
                       THEN strip(company_location[1]) ELSE NA
            location == IF Len(company_location) > 1
                        THEN strip(company_location[2]) ELSE NA
        IN  IF link_element # None /\ link_element[1].href = None
            THEN [exc |-> "KeyError", jobs |-> <<>>]         \* line 77: no href
            ELSE [exc |-> "none",
                  jobs |-> << [title |-> title,
                               company |-> company,
                               location |-> location,
                               url |-> IF link_element # None
                                       THEN BaseUrl \o link_element[1].href[1]
                                       ELSE NA] >>]

\* The two nested loops of lines 67-84 over the cards they visit, in order.
RECURSIVE ParseCards(_)
ParseCards(cards) ==
    IF cards = <<>> THEN [exc |-> "none", jobs |-> <<>>]
    ELSE LET first == ParseCard(Head(cards))
         IN  IF first.exc # "none" THEN first
             ELSE LET rest == ParseCards(Tail(cards))
                  IN  IF rest.exc # "none" THEN rest
                      ELSE [exc |-> "none", jobs |-> first.jobs \o rest.jobs]

VisitedCards(html) ==
    LET groups == find_all(html, "Cols3")
    IN  Flatten([g \in DOMAIN groups |-> find_all(groups[g].children, "Cols3_item")])

extract_jobs_from_html(html) == ParseCards(VisitedCards(html))


(***************************************************************************)
(* The collaborators' answers.                                             *)
(***************************************************************************)
Statuses == {200, 500}

\* response.raise_for_status() raises (a requests.RequestException)
raise_for_status(status) == status >= 400 /\ status < 600

\* requests.get / requests.post raised a transport error: no response
TransportError == [err |-> TRUE, status |-> 500, body |-> <<>>]

Responses(bodies) ==
    {TransportError} \cup
    {[err |-> FALSE, status |-> s, body |-> b] : s \in Statuses, b \in bodies}

DeveloppeurWeb == <<"D","é","v","e","l","o","p","p","e","u","r"," ","W","e","b">>

IndexCard1 == Card(Some(DeveloppeurWeb), Some(Anchor(<<"A", "\n", "K">>, Some(<<"1">>))))

IndexCard2 == Card(Some(<<"X">>), Some(Anchor(<<"B">>, Some(<<"2">>))))

IndexCardNoAnchor == Card(Some(<<"X">>), None)

\* The index pages a run may be served: an empty body, no card, two cards,
\* the same card twice, a card without anchor after a good one.
IndexPages ==
    { <<>>,
      <<Group(<<>>)>>,
      <<Group(<<IndexCard1, IndexCard2>>)>>,
      <<Group(<<IndexCard1, IndexCard1>>)>>,
      <<Group(<<IndexCard1, IndexCardNoAnchor>>)>> }

IndexResponses == Responses(IndexPages)

\* A detail page: its top-level elements, each a tag and its text.
DetailPages ==
    { <<>>,
      <<[tag |-> "p", text |-> <<"D">>]>>,
      <<[tag |-> "script", text |-> <<"S">>]>> }

DetailResponses == Responses(DetailPages)

\* The body of the summarization answer: not JSON, a JSON scalar, or a JSON
\* object with or without "choices"; a choice is its message content, the
\* text (possibly empty) or JSON null (None).
Summary == <<"Role summary.">>

SummarizeBodies ==
    { [json |-> "invalid", has_choices |-> FALSE, choices |-> <<>>],
      [json |-> "scalar",  has_choices |-> FALSE, choices |-> <<>>],
      [json |-> "object",  has_choices |-> FALSE, choices |-> <<>>],
      [json |-> "object",  has_choices |-> TRUE,  choices |-> <<>>],
      [json |-> "object",  has_choices |-> TRUE,  choices |-> <<None>>],
      [json |-> "object",  has_choices |-> TRUE,  choices |-> <<Some(<<>>)>>],
      [json |-> "object",  has_choices |-> TRUE,  choices |-> <<Some(Summary)>>] }

SummarizeResponses == Responses(SummarizeBodies)

(***************************************************************************)
(* fetch_html (lines 52-60): the body, or None on a RequestException.      *)
(***************************************************************************)
\* variant: line 56 (raise_for_status) left out
fetch_html_unchecked(resp) ==
    IF resp.err THEN None ELSE Some(resp.body)

fetch_html(resp) ==
    IF resp.err \/ raise_for_status(resp.status) THEN None ELSE Some(resp.body)

(***************************************************************************)
(* extract_full_text (lines 87-101).                                       *)
(***************************************************************************)
RemovedTags == {"script", "style", "noscript", "iframe", "meta", "header", "footer"}

RECURSIVE join(_, _)
join(parts, sep) ==
    IF parts = <<>> THEN <<>>
    ELSE IF Len(parts) = 1 THEN parts[1]
    ELSE parts[1] \o <<sep>> \o join(Tail(parts), sep)

\* soup.get_text(separator="\n", strip=True) once the tags are removed
get_text(page) ==
    LET kept == SelectSeq(page, LAMBDA n : n.tag \notin RemovedTags /\ strip(n.text) # <<>>)
    IN  join([k \in DOMAIN kept |-> strip(kept[k].text)], "\n")

extract_full_text(resp) ==
    IF resp.err \/ raise_for_status(resp.status) THEN None
    ELSE Some(get_text(resp.body))

(***************************************************************************)
(* summarize_with_mistral (lines 103-130), applied to the answer of the    *)
(* POST.  The status of the answer is never read.                          *)
(***************************************************************************)
summarize_with_mistral(resp) ==
    IF resp.err THEN None                                  \* except Exception
    ELSE IF resp.body.json = "invalid" THEN None           \* JSONDecodeError
    ELSE IF resp.body.json = "scalar" THEN None            \* TypeError on "in"
    ELSE IF ~resp.body.has_choices THEN None               \* line 120
    ELSE IF resp.body.choices = <<>> THEN None             \* IndexError
    ELSE resp.body.choices[1]                              \* line 124

\* variant: `if resumeAI == ""` instead of `is None`
summary_missing_if_empty(resume) == resume = Some(<<>>)

\* line 159: resumeAI is None
summary_missing(resume) == resume = None

(***************************************************************************)
(* The store (pymongo collection).                                         *)
(***************************************************************************)
\* variant: the filter names another field, {"title": job_url}
find_one_by_title(coll, job_url) ==
    IF \E k \in DOMAIN coll : coll[k].title = job_url
    THEN Some(coll[CHOOSE k \in DOMAIN coll :
                  coll[k].title = job_url /\ \A m \in 1..(k - 1) : coll[m].title # job_url])
    ELSE None

\* variant: only the oldest document of the store is compared
find_one_oldest_only(coll, job_url) ==
    IF coll # <<>> /\ coll[1].url = job_url THEN Some(coll[1]) ELSE None

\* collection.find_one({"url": job_url}): the first match, or None
find_one(coll, job_url) ==
    IF \E k \in DOMAIN coll : coll[k].url = job_url
    THEN Some(coll[CHOOSE k \in DOMAIN coll :
                  coll[k].url = job_url /\ \A m \in 1..(k - 1) : coll[m].url # job_url])
    ELSE None

\* variant: every listing is taken for a duplicate
is_existing_always(found) == TRUE

\* variant: the test of line 149 left out
is_existing_never(found) == FALSE

\* line 149: if find_one(...): the listing is skipped
is_existing(found) == found # None

\* variant: the new document replaces the documents of the same url
insert_one_replacing(coll, job_entry) ==
    Append(SelectSeq(coll, LAMBDA d : d.url # job_entry.url), job_entry)

\* collection.insert_one(job_entry): no uniqueness constraint
insert_one(coll, job_entry) == Append(coll, job_entry)


(***************************************************************************)
(* run_scraper (lines 132-179), one action per external call, and the      *)
(* /scrape handler (lines 186-189) that starts it in a new thread.         *)
(*                                                                         *)
(* pc: "idle" (not started), "fetch_html" (line 134), "find_one" (149),    *)
(* "extract_full_text" (153), "summarize_with_mistral" (158),              *)
(* "insert_one" (176), "returned", "raised" (an exception left             *)
(* run_scraper and ended the thread).  Runs are numbered in the order of   *)
(* their triggers.                                                         *)
(***************************************************************************)
\* what the endpoint answered, as the log records it
AnswerKind(resp) ==
    IF resp.err THEN "transport_error"
    ELSE IF resp.status \notin 200..299 THEN "non_2xx"
    ELSE IF resp.body.json # "object" THEN "invalid_body"
    ELSE IF ~resp.body.has_choices THEN "no_choices"
    ELSE "choices"

NewLog == [find_one |-> 0, get |-> 0, post |-> 0, insert_one |-> 0,
           exists |-> "?", text |-> "?", answer |-> "?", summary |-> "?",
           stored |-> "?"]

NotParsed == [exc |-> "pending", jobs |-> <<>>]

NotCategorized == "pending"

job(t) == job_list[t][job_index[t]]

Active(t) == pc[t] \notin {"idle", "returned", "raised"}

Ended(t) == pc[t] \in {"returned", "raised"}

InStore(job_url) == \E k \in DOMAIN collection : collection[k].url = job_url

\* variant: after the last listing the loop starts over at the first
NextJob_wrap_around(t) ==
    /\ pc' = [pc EXCEPT ![t] = "find_one"]
    /\ job_index' = [job_index EXCEPT ![t] =
                         IF @ < Len(job_list[t]) THEN @ + 1 ELSE 1]
    /\ job_text' = [job_text EXCEPT ![t] = None]
    /\ resumeAI' = [resumeAI EXCEPT ![t] = None]
    /\ UNCHANGED job_list

\* variant: after the last listing the thread waits instead of returning
NextJob_wait(t) ==
    /\ IF job_index[t] < Len(job_list[t])
       THEN /\ pc' = [pc EXCEPT ![t] = "find_one"]
            /\ job_index' = [job_index EXCEPT ![t] = @ + 1]
       ELSE /\ pc' = [pc EXCEPT ![t] = "waiting"]
            /\ UNCHANGED job_index
    /\ job_text' = [job_text EXCEPT ![t] = None]
    /\ resumeAI' = [resumeAI EXCEPT ![t] = None]
    /\ UNCHANGED job_list

\* variant: a listing that was stored or given up is tried a second time
NextJob_retry(t) ==
    /\ IF log[t][job_index[t]].find_one < 2
       THEN /\ pc' = [pc EXCEPT ![t] = "find_one"]
            /\ UNCHANGED <<job_index, job_list>>
       ELSE IF job_index[t] < Len(job_list[t])
       THEN /\ pc' = [pc EXCEPT ![t] = "find_one"]
            /\ job_index' = [job_index EXCEPT ![t] = @ + 1]
            /\ UNCHANGED job_list
       ELSE /\ pc' = [pc EXCEPT ![t] = "returned"]
            /\ job_index' = [job_index EXCEPT ![t] = 0]
            /\ job_list' = [job_list EXCEPT ![t] = <<>>]
    /\ job_text' = [job_text EXCEPT ![t] = None]
    /\ resumeAI' = [resumeAI EXCEPT ![t] = None]

\* continue, or the end of the for loop of line 144; the locals of the
\* iteration are dead from here on, and all locals when run_scraper returns.
NextJob(t) ==
    /\ IF job_index[t] < Len(job_list[t])
       THEN /\ pc' = [pc EXCEPT ![t] = "find_one"]
            /\ job_index' = [job_index EXCEPT ![t] = @ + 1]
            /\ UNCHANGED job_list
       ELSE /\ pc' = [pc EXCEPT ![t] = "returned"]
            /\ job_index' = [job_index EXCEPT ![t] = 0]
            /\ job_list' = [job_list EXCEPT ![t] = <<>>]
    /\ job_text' = [job_text EXCEPT ![t] = None]
    /\ resumeAI' = [resumeAI EXCEPT ![t] = None]

InitRuns ==
    /\ collection = <<>>
    /\ pc = [t \in Runs |-> "idle"]
    /\ job_list = [t \in Runs |-> <<>>]
    /\ job_index = [t \in Runs |-> 0]
    /\ job_text = [t \in Runs |-> None]
    /\ resumeAI = [t \in Runs |-> None]
    /\ log = [t \in Runs |-> <<>>]
    /\ index_log = [t \in Runs |-> "pending"]

\* lines 186-189: threading.Thread(target=scraper.run_scraper).start()
scrape(t) ==
    /\ pc[t] = "idle"
    /\ \A u \in Runs : u < t => pc[u] # "idle"
    /\ pc' = [pc EXCEPT ![t] = "fetch_html"]
    /\ UNCHANGED <<collection, job_list, job_index, job_text, resumeAI,
                   log, index_log, parse_in, parse_out, title_in,
                   category_out>>

\* lines 134-145: the index fetch, the parse and the two early returns
run_fetch_html(t) ==
    /\ pc[t] = "fetch_html"
    /\ \E resp \in IndexResponses :
         LET html_content == fetch_html(resp)
             failed == resp.err \/ resp.status \notin 200..299
             parsed == extract_jobs_from_html(html_content[1])
         IN  IF ~Truthy(html_content)
             THEN /\ pc' = [pc EXCEPT ![t] = "returned"]
                  /\ index_log' = [index_log EXCEPT ![t] =
                                      IF failed THEN "fetch_failed" ELSE "empty_body"]
                  /\ UNCHANGED <<job_list, job_index, log>>
             ELSE IF parsed.exc # "none"
             THEN /\ pc' = [pc EXCEPT ![t] = "raised"]
                  /\ index_log' = [index_log EXCEPT ![t] =
                                      IF failed THEN "fetch_failed" ELSE "parse_raised"]
                  /\ UNCHANGED <<job_list, job_index, log>>
             ELSE IF parsed.jobs = <<>>
             THEN /\ pc' = [pc EXCEPT ![t] = "returned"]
                  /\ index_log' = [index_log EXCEPT ![t] =
                                      IF failed THEN "fetch_failed" ELSE "no_jobs"]
                  /\ UNCHANGED <<job_list, job_index, log>>
             ELSE /\ pc' = [pc EXCEPT ![t] = "find_one"]
                  /\ index_log' = [index_log EXCEPT ![t] =
                                      IF failed THEN "fetch_failed" ELSE "jobs"]
                  /\ job_list' = [job_list EXCEPT ![t] = parsed.jobs]
                  /\ job_index' = [job_index EXCEPT ![t] = 1]
                  /\ log' = [log EXCEPT ![t] = [k \in DOMAIN parsed.jobs |-> NewLog]]
    /\ UNCHANGED <<collection, job_text, resumeAI, parse_in, parse_out,
                   title_in, category_out>>

\* lines 145-151: the existence check; a store failure raises out of
\* run_scraper (no try around line 149)
run_find_one(t) ==
    /\ pc[t] = "find_one"
    /\ \E store_up \in BOOLEAN :
         LET job_url == job(t).url
             found == find_one(collection, job_url)
         IN  IF ~store_up
             THEN /\ pc' = [pc EXCEPT ![t] = "raised"]
                  /\ log' = [log EXCEPT ![t][job_index[t]] =
                                [@ EXCEPT !.find_one = @ + 1, !.exists = "error"]]
                  /\ job_index' = [job_index EXCEPT ![t] = 0]
                  /\ job_list' = [job_list EXCEPT ![t] = <<>>]
                  /\ UNCHANGED <<job_text, resumeAI>>
             ELSE /\ log' = [log EXCEPT ![t][job_index[t]] =
                                [@ EXCEPT !.find_one = @ + 1,
                                          !.exists = IF InStore(job_url)
                                                     THEN "present" ELSE "absent"]]
                  /\ IF is_existing(found)
                     THEN NextJob(t)
                     ELSE /\ pc' = [pc EXCEPT ![t] = "extract_full_text"]
                          /\ UNCHANGED <<job_list, job_index, job_text, resumeAI>>
    /\ UNCHANGED <<collection, index_log, parse_in, parse_out,
                   title_in, category_out>>

\* lines 153-156: the detail fetch and the text extraction
run_extract_full_text(t) ==
    /\ pc[t] = "extract_full_text"
    /\ \E resp \in DetailResponses :
         LET text == extract_full_text(resp)
         IN  /\ log' = [log EXCEPT ![t][job_index[t]] =
                           [@ EXCEPT !.get = @ + 1,
                                     !.text = IF resp.err \/ resp.status \notin 200..299
                                              THEN "error"
                                              ELSE IF Truthy(text) THEN "ok" ELSE "empty"]]
             /\ IF ~Truthy(text)
                THEN NextJob(t)
                ELSE /\ pc' = [pc EXCEPT ![t] = "summarize_with_mistral"]
                     /\ job_text' = [job_text EXCEPT ![t] = text]
                     /\ UNCHANGED <<job_list, job_index, resumeAI>>
    /\ UNCHANGED <<collection, index_log, parse_in, parse_out,
                   title_in, category_out>>

\* line 158: the POST to the summarization endpoint, its answer decoded
\* (lines 106-130), and the skip of lines 159-161 when there is no summary
run_summarize_with_mistral(t) ==
    /\ pc[t] = "summarize_with_mistral"
    /\ \E response \in SummarizeResponses :
         LET resume == summarize_with_mistral(response)
         IN  /\ log' = [log EXCEPT ![t][job_index[t]] =
                           [@ EXCEPT !.post = @ + 1,
                                     !.answer = AnswerKind(response),
                                     !.summary = IF resume = None THEN "none" ELSE "ok"]]
             /\ IF summary_missing(resume)
                THEN NextJob(t)
                ELSE /\ pc' = [pc EXCEPT ![t] = "insert_one"]
                     /\ resumeAI' = [resumeAI EXCEPT ![t] = resume]
                     /\ UNCHANGED <<job_list, job_index, job_text>>
    /\ UNCHANGED <<collection, index_log, parse_in, parse_out,
                   title_in, category_out>>

\* variant: the document does not carry the listing's url
job_entry_without_url(t) ==
    [title |-> job_list[t][job_index[t]].title,
     company |-> job_list[t][job_index[t]].company,
     location |-> job_list[t][job_index[t]].location,
     url |-> NA,
     resume |-> resumeAI[t],
     category |-> categorize_job(job_list[t][job_index[t]].title),
     _id |-> <<t, job_index[t]>>]

\* variant: the category is computed from the summary
job_entry_category_of_resume(t) ==
    [title |-> job_list[t][job_index[t]].title,
     company |-> job_list[t][job_index[t]].company,
     location |-> job_list[t][job_index[t]].location,
     url |-> job_list[t][job_index[t]].url,
     resume |-> resumeAI[t],
     category |-> categorize_job(resumeAI[t][1]),
     _id |-> <<t, job_index[t]>>]

\* lines 163-173; _id is the identifier the store gives the document
job_entry(t) ==
    [title |-> job(t).title,
     company |-> job(t).company,
     location |-> job(t).location,
     url |-> job(t).url,
     resume |-> resumeAI[t],
     category |-> categorize_job(job(t).title),
     _id |-> <<t, job_index[t]>>]

\* lines 175-179: the insert; a store failure is caught and logged
run_insert_one(t) ==
    /\ pc[t] = "insert_one"
    /\ \E store_up \in BOOLEAN :
         /\ collection' = IF store_up THEN insert_one(collection, job_entry(t))
                          ELSE collection
         /\ log' = [log EXCEPT ![t][job_index[t]] =
                       [@ EXCEPT !.insert_one = @ + 1,
                                 !.stored = IF store_up THEN "ok" ELSE "error"]]
    /\ NextJob(t)
    /\ UNCHANGED <<index_log, parse_in, parse_out,
                   title_in, category_out>>

run_scraper(t) ==
    \/ run_fetch_html(t)
    \/ run_find_one(t)
    \/ run_extract_full_text(t)
    \/ run_summarize_with_mistral(t)
    \/ run_insert_one(t)

(***************************************************************************)
(* Spec: any number of triggers up to MaxRuns, runs may overlap.           *)
(***************************************************************************)
Init ==
    /\ InitRuns
    /\ parse_in = <<>>
    /\ parse_out = NotParsed
    /\ title_in = <<>>
    /\ category_out = NotCategorized

Next == \E t \in Runs : scrape(t) \/ run_scraper(t)

Spec == Init /\ [][Next]_vars

(***************************************************************************)
(* SpecLive: Spec with every started run scheduled again and again and     *)
(* every external call returning: the thread of lines 186-189 is an OS     *)
(* thread, and each step of run_scraper is one external call, which        *)
(* returns a response or raises.                                           *)
(***************************************************************************)
SpecLive == Init /\ [][Next]_vars /\ \A t \in Runs : WF_vars(run_scraper(t))

(***************************************************************************)
(* SpecSeq: a trigger arrives only when no run is in flight.               *)
(***************************************************************************)
scrape_alone(t) ==
    /\ \A u \in Runs : ~Active(u)
    /\ scrape(t)

NextSeq == \E t \in Runs : scrape_alone(t) \/ run_scraper(t)

SpecSeq == Init /\ [][NextSeq]_vars


(***************************************************************************)
(* SpecParse: extract_jobs_from_html applied to one page drawn from        *)
(* ParseInputs.                                                            *)
(***************************************************************************)
StrUpTo(chars, n) == UNION {[1..k -> chars] : k \in 0..n}

AnchorChars == {"A", "K", " ", "\n"}

ParagraphTexts == {None, Some(<<"T">>), Some(<<" ", "T", "\n">>)}

Anchors ==
    {None} \cup
    {Some(Anchor(text, href)) :
        text \in StrUpTo(AnchorChars, MaxLen), href \in {None, Some(<<"7">>)}}

TestCards == {Card(p, a) : p \in ParagraphTexts, a \in Anchors}

\* One card of TestCards: alone, before or after a well-formed card, in a
\* second group, in a group nested in a group, outside any group.
ParseInputs ==
    {<<>>, <<Group(<<>>)>>}
    \cup {<<Group(<<c>>)>> : c \in TestCards}
    \cup {<<Group(<<IndexCard2, c>>)>> : c \in TestCards}
    \cup {<<Group(<<c, IndexCard2>>)>> : c \in TestCards}
    \cup {<<Group(<<IndexCard2>>), Group(<<c>>)>> : c \in TestCards}
    \cup {<<Group(<<Group(<<c>>)>>)>> : c \in TestCards}
    \cup {<<c>> : c \in TestCards}

InitParse ==
    /\ InitRuns
    /\ parse_in \in ParseInputs
    /\ parse_out = NotParsed
    /\ title_in = <<>>
    /\ category_out = NotCategorized

call_extract_jobs_from_html ==
    /\ parse_out = NotParsed
    /\ parse_out' = extract_jobs_from_html(parse_in)
    /\ UNCHANGED <<parse_in, title_in, category_out, run_vars>>

NextParse == call_extract_jobs_from_html

SpecParse == InitParse /\ [][NextParse]_vars

(***************************************************************************)
(* SpecCategorize: categorize_job applied to one title drawn from Titles:  *)
(* up to MaxWords words separated by one space.  The words are the         *)
(* keywords of the table, some of them capitalised, parts of a keyword     *)
(* that holds a space, and words that are no keyword.                      *)
(***************************************************************************)
MaxWords == 2

Keywords ==
    UNION {{categories[c].keywords[w] : w \in DOMAIN categories[c].keywords} :
              c \in DOMAIN categories}

OtherWords ==
    { <<"D","é","v","e","l","o","p","p","e","u","r">>,
      <<"T","E","C","H","N","I","C","I","E","N">>,
      <<"I","T">>,
      <<"W","e","b">>,
      <<"c","h","e","f">>,
      <<"g","e","s","t","i","o","n"," ","d","e","s">>,
      <<"r","i","s","q","u","e","s">>,
      <<"M","É","D","E","C","I","N">> }

TitleWords == Keywords \cup OtherWords

RECURSIVE TitlesOf(_)
TitlesOf(n) ==
    IF n = 0 THEN {<<>>}
    ELSE IF n = 1 THEN TitleWords
    ELSE {t \o <<" ">> \o w : t \in TitlesOf(n - 1), w \in TitleWords}

Titles == UNION {TitlesOf(n) : n \in 0..MaxWords}

InitCategorize ==
    /\ InitRuns
    /\ parse_in = <<>>
    /\ parse_out = NotParsed
    /\ title_in \in Titles
    /\ category_out = NotCategorized

call_categorize_job ==
    /\ category_out = NotCategorized
    /\ category_out' = categorize_job(title_in)
    /\ UNCHANGED <<title_in, parse_in, parse_out, run_vars>>

NextCategorize == call_categorize_job

SpecCategorize == InitCategorize /\ [][NextCategorize]_vars



(***************************************************************************)
(* Properties.                                                             *)
(***************************************************************************)
Entries(t) == DOMAIN log[t]

\* the listing was given up at one of its steps
Failed(e) ==
    \/ e.exists = "error"
    \/ e.text \in {"error", "empty"}
    \/ e.summary = "none"
    \/ e.stored = "error"

InsertedBy(t, k) == \E d \in DOMAIN collection : collection[d]._id = <<t, k>>

\* C1 (SpecSeq: runs do not overlap).  In every reachable state the store
\* holds at most one document per url, whatever the index pages listed
\* (the same url twice included) and whichever steps failed.
C1_OneRecordPerUrl ==
    \A j, k \in DOMAIN collection :
        collection[j].url = collection[k].url => j = k

\* C1 witness: two runs have returned; the first listed a url twice,
\* stored it at the first listing and found it present at the second; the
\* second run found it present both times; the store holds it once.
C1_Witness ==
    \E t, u \in Runs :
        /\ t # u /\ pc[t] = "returned" /\ pc[u] = "returned"
        /\ Len(log[t]) = 2 /\ Len(log[u]) = 2
        /\ log[t][1].stored = "ok" /\ log[t][2].exists = "present"
        /\ log[u][1].exists = "present" /\ log[u][2].exists = "present"
        /\ Len(collection) = 1

\* C2 (Spec: runs may overlap).  Two documents with the same url are
\* reachable, and they always come from two different runs that each found
\* the url absent at its own existence check: the check and the insert are
\* two steps and nothing orders the runs between them.
C2_DuplicatesOnlyAcrossRuns ==
    \A j, k \in DOMAIN collection :
        (j # k /\ collection[j].url = collection[k].url) =>
            /\ collection[j]._id[1] # collection[k]._id[1]
            /\ log[collection[j]._id[1]][collection[j]._id[2]].exists = "absent"
            /\ log[collection[k]._id[1]][collection[k]._id[2]].exists = "absent"

\* C2 witness: the store holds two documents for one url.
C2_Witness ==
    \E j, k \in DOMAIN collection :
        j # k /\ collection[j].url = collection[k].url

\* C3, as claimed.  When a run has ended, every listing that follows a
\* listing given up at any of its steps (existence check, detail fetch,
\* text extraction, summarization, insert) has had its existence check.
C3_FailureAbortsOnlyTheListing ==
    \A t \in Runs :
        Ended(t) =>
            \A i, j \in Entries(t) :
                (i < j /\ Failed(log[t][i])) => log[t][j].find_one >= 1

\* C4, as claimed.  A listing whose store lookup failed is not stored, the
\* run goes on, and once it has ended the listings after it were processed.
C4_LookupFailureIsListingFatalOnly ==
    \A t \in Runs : \A i \in Entries(t) :
        log[t][i].exists = "error" =>
            /\ ~InsertedBy(t, i)
            /\ pc[t] # "raised"
            /\ pc[t] = "returned" =>
                 \A j \in Entries(t) : j > i => log[t][j].exists # "?"

C6_BadAnswerGivesNoSummary ==
    \A t \in Runs : \A k \in Entries(t) :
        log[t][k].answer \in {"transport_error", "non_2xx", "invalid_body", "no_choices"} =>
            /\ log[t][k].summary = "none"
            /\ log[t][k].insert_one = 0
            /\ ~InsertedBy(t, k)
            /\ ~(pc[t] = "insert_one" /\ job_index[t] = k)

\* C7.  A listing whose url the store held at its existence check causes no
\* detail fetch, no summarization request and no insert in that run; and no
\* network call is made for a listing before its existence check.
C7_NoNetworkCallForExisting ==
    \A t \in Runs : \A k \in Entries(t) :
        /\ log[t][k].exists = "present" =>
              log[t][k].get = 0 /\ log[t][k].post = 0 /\ log[t][k].insert_one = 0
        /\ (log[t][k].get > 0 \/ log[t][k].post > 0) => log[t][k].find_one > 0
        /\ log[t][k].find_one = 0 => log[t][k].exists = "?"

\* C7 witness: a run skipped a listing it found present and went on to
\* the end.
C7_Witness ==
    \E t \in Runs :
        /\ pc[t] = "returned"
        /\ \E k \in Entries(t) : log[t][k].exists = "present" /\ log[t][k].get = 0
        /\ \E k \in Entries(t) : log[t][k].get > 0

\* C8.  A run whose index fetch failed, or gave an empty body, or whose
\* parse gave no listing has returned without any existence check, detail
\* fetch, summarization request or insert: no document of the store is its.
C8_NoIndexNoProcessing ==
    \A t \in Runs :
        index_log[t] \in {"fetch_failed", "empty_body", "no_jobs"} =>
            /\ pc[t] = "returned"
            /\ log[t] = <<>>
            /\ \A d \in DOMAIN collection : collection[d]._id[1] # t

\* C8 witness: one run's index fetch failed while another run had listings
\* and the store holds a document.
C8_Witness ==
    \E t, u \in Runs :
        /\ index_log[t] = "fetch_failed"
        /\ collection # <<>>
        /\ index_log[u] = "jobs"

\* the cards of a page: those inside a listing group, each once
RECURSIVE ListingCards(_)
ListingCards(nodes) ==
    IF nodes = <<>> THEN <<>>
    ELSE (IF Head(nodes).class = "Cols3"
          THEN find_all(Head(nodes).children, "Cols3_item") ELSE <<>>)
         \o ListingCards(Tail(nodes))

\* C9, as claimed (SpecParse).  The parse never raises; it returns one job
\* per card, a card without <p> giving title "N/A" and a card without <a>
\* giving url "N/A".
C9_ParserNeverFails ==
    parse_out # NotParsed =>
        /\ parse_out.exc = "none"
        /\ Len(parse_out.jobs) = Len(VisitedCards(parse_in))
        /\ \A k \in DOMAIN parse_out.jobs :
              /\ VisitedCards(parse_in)[k].a = None => parse_out.jobs[k].url = NA
              /\ VisitedCards(parse_in)[k].p = None => parse_out.jobs[k].title = NA

\* what the claim gives for the anchor text: company then location, a
\* missing part (no line break, empty text) being "N/A"
ClaimedCompany(text) ==
    IF strip(text) = <<>> THEN NA ELSE strip(split(strip(text), "\n")[1])

ClaimedLocation(text) ==
    IF Len(split(strip(text), "\n")) > 1
    THEN strip(split(strip(text), "\n")[2]) ELSE NA

WellFormed(card) == card.p # None /\ card.a # None /\ card.a[1].href # None

\* C10, as claimed (SpecParse).  On a page whose cards all have a paragraph
\* and an anchor with href, the parse returns exactly one job per card, in
\* document order, with title the paragraph text, url the base url followed
\* by the href, and company and location as claimed.
C10_OneJobPerCard ==
    (/\ parse_out # NotParsed
     /\ \A k \in DOMAIN ListingCards(parse_in) : WellFormed(ListingCards(parse_in)[k])) =>
        /\ parse_out.exc = "none"
        /\ Len(parse_out.jobs) = Len(ListingCards(parse_in))
        /\ \A k \in DOMAIN parse_out.jobs :
              LET card == ListingCards(parse_in)[k]
              IN  /\ parse_out.jobs[k].title = strip(card.p[1])
                  /\ parse_out.jobs[k].url = BaseUrl \o card.a[1].href[1]
                  /\ parse_out.jobs[k].company = ClaimedCompany(card.a[1].text)
                  /\ parse_out.jobs[k].location = ClaimedLocation(card.a[1].text)

\* some keyword of the c-th category of the table occurs in the lower-cased title
Matches(title, c) ==
    \E w \in DOMAIN categories[c].keywords :
        Contains(lower(title), categories[c].keywords[w])

\* C11 (SpecCategorize).  Once categorize_job has been applied, its result
\* is the label of a category exactly when that category has a keyword
\* occurring in the lower-cased title and no category before it in the
\* table has one: of several matching categories the earliest wins.  A
\* title containing "technicien" or "développeur", in any case, gives
\* "Informatique / IT".
C11_FirstCategoryInTableOrder ==
    category_out # NotCategorized =>
        /\ \A c \in DOMAIN categories :
              category_out = categories[c].category <=>
                  (Matches(title_in, c) /\ \A d \in 1..(c - 1) : ~Matches(title_in, d))
        /\ (\/ Contains(lower(title_in), <<"t","e","c","h","n","i","c","i","e","n">>)
            \/ Contains(lower(title_in), <<"d","é","v","e","l","o","p","p","e","u","r">>))
              => category_out = "Informatique / IT"

\* C11 witness: "TECHNICIEN chantier" has keywords of the first and of the
\* sixth category only after lower-casing; the call gave the first.
C11_Witness ==
    /\ title_in = <<"T","E","C","H","N","I","C","I","E","N">> \o <<" ">>
                     \o <<"c","h","a","n","t","i","e","r">>
    /\ Matches(title_in, 1) /\ Matches(title_in, 6)
    /\ category_out = "Informatique / IT"

\* C12 as stated (SpecCategorize).  A title in which no keyword of the
\* table occurs is given the label "Other".
C12_NoKeywordGivesOther ==
    (category_out # NotCategorized /\ \A c \in DOMAIN categories : ~Matches(title_in, c))
        => category_out = "Other"

\* C12 amended (SpecCategorize).  A title in which no keyword of the table
\* occurs is given the label "Autre" (line 50).
C12_NoKeywordGivesAutre ==
    (category_out # NotCategorized /\ \A c \in DOMAIN categories : ~Matches(title_in, c))
        => category_out = "Autre"

\* C12 witness: "chef Web" holds no keyword and the call gave "Autre".
C12_Witness ==
    /\ title_in = <<"c","h","e","f"," ","W","e","b">>
    /\ \A c \in DOMAIN categories : ~Matches(title_in, c)
    /\ category_out = "Autre"

\* C13 (Spec).  Every step that adds a document adds exactly one, at the
\* end of the store, for the listing the inserting run is at: it carries
\* that listing's title, company, location and url, the summary that the
\* listing's summarize_with_mistral call returned, and the category that
\* categorize_job gives the title; a document titled "Développeur Web"
\* has category "Informatique / IT" whatever its summary.
C13_RecordCarriesListing ==
    [][\A t \in Runs :
          (pc[t] = "insert_one" /\ log'[t] # log[t] /\ collection' # collection) =>
              LET listing == job_list[t][job_index[t]]
                  d == collection'[Len(collection')]
              IN  /\ Len(collection') = Len(collection) + 1
                  /\ SubSeq(collection', 1, Len(collection)) = collection
                  /\ d.title = listing.title
                  /\ d.company = listing.company
                  /\ d.location = listing.location
                  /\ d.url = listing.url
                  /\ log[t][job_index[t]].summary = "ok"
                  /\ d.resume = resumeAI[t]
                  /\ d.category = categorize_job(listing.title)
                  /\ d.title = DeveloppeurWeb => d.category = "Informatique / IT"]_vars

\* C13 witness: the store holds a document titled "Développeur Web" with
\* summary "Role summary." and category "Informatique / IT", and one
\* titled "X" with category "Autre".
C13_Witness ==
    \E j, k \in DOMAIN collection :
        /\ collection[j].title = DeveloppeurWeb
        /\ collection[j].resume = Some(Summary)
        /\ collection[j].category = "Informatique / IT"
        /\ collection[k].title = <<"X">>
        /\ collection[k].category = "Autre"

\* C14 (Spec).  The store only grows: in every step each document of the
\* store stays at its place with all its field values; nothing is updated
\* or deleted, documents are only added at the end.
C14_StoreOnlyGrows ==
    [][/\ Len(collection') >= Len(collection)
       /\ \A k \in DOMAIN collection : collection'[k] = collection[k]]_vars

\* C14 witness: a run stored its first listing; another run found that
\* url present, stored its second listing and has returned; the first
\* document is still the first of the store.
C14_Witness ==
    \E t, u \in Runs :
        /\ t # u
        /\ log[t] # <<>> /\ log[t][1].stored = "ok"
        /\ pc[u] = "returned" /\ Len(log[u]) = 2
        /\ log[u][1].exists = "present" /\ log[u][2].stored = "ok"
        /\ Len(collection) >= 2
        /\ collection[1]._id = <<t, 1>>

\* a step of the listing has been made
Started(e) == e.find_one + e.get + e.post + e.insert_one > 0

\* the listing was stored or skipped
Finished(e) ==
    \/ e.exists \in {"present", "error"}
    \/ e.text \in {"error", "empty"}
    \/ e.summary = "none"
    \/ e.stored \in {"ok", "error"}

\* C15 (Spec).  Within one run the listings are processed one at a time in
\* document order: a listing has a step made only when every listing
\* before it in job_list was stored or skipped, the listings after the one
\* the run is at are untouched and those before it are finished, and no
\* listing is visited twice (one existence check at most).
C15_OneListingAtATimeInOrder ==
    \A t \in Runs :
        /\ \A k \in Entries(t) :
              /\ log[t][k].find_one <= 1
              /\ Started(log[t][k]) =>
                    \A j \in 1..(k - 1) : Started(log[t][j]) /\ Finished(log[t][j])
        /\ (Active(t) /\ job_index[t] > 0) =>
              /\ job_index[t] \in Entries(t)
              /\ \A k \in Entries(t) :
                    /\ k > job_index[t] => log[t][k] = NewLog
                    /\ k < job_index[t] => Finished(log[t][k])
                    /\ (k = job_index[t] /\ pc[t] # "find_one") =>
                          (Started(log[t][k]) /\ ~Finished(log[t][k]))

\* C15 witness: a run is at the insert of its second listing; the first
\* was given up at the summarization, after one step of each kind.
C15_Witness ==
    \E t \in Runs :
        /\ pc[t] = "insert_one" /\ job_index[t] = 2
        /\ log[t][1].summary = "none" /\ log[t][1].post = 1
        /\ log[t][2].summary = "ok" /\ log[t][2].insert_one = 0

\* C16 (Spec).  No step is retried: for every listing of every run there
\* is at most one existence check, one detail fetch, one summarization
\* request and one insert attempt, and a listing given up at a step has
\* had that step once and no later step at all.
C16_NoRetry ==
    \A t \in Runs : \A k \in Entries(t) :
        LET e == log[t][k]
        IN  /\ e.find_one <= 1 /\ e.get <= 1 /\ e.post <= 1 /\ e.insert_one <= 1
            /\ e.exists = "error" =>
                  (e.find_one = 1 /\ e.get = 0 /\ e.post = 0 /\ e.insert_one = 0)
            /\ e.text \in {"error", "empty"} =>
                  (e.get = 1 /\ e.post = 0 /\ e.insert_one = 0)
            /\ e.summary = "none" => (e.post = 1 /\ e.insert_one = 0)
            /\ e.stored = "error" => (e.insert_one = 1 /\ ~InsertedBy(t, k))

\* C16 witness: a run has returned; its first listing was given up at the
\* detail fetch and its second at the insert, each after one call.
C16_Witness ==
    \E t \in Runs :
        /\ pc[t] = "returned" /\ Len(log[t]) = 2
        /\ log[t][1].text = "error" /\ log[t][1].get = 1
        /\ log[t][2].stored = "error" /\ log[t][2].insert_one = 1

\* the url has a document that run t did not store
StoredByAnother(t, job_url) ==
    \E d \in DOMAIN collection :
        collection[d].url = job_url /\ collection[d]._id[1] # t

\* C17 (SpecSeq: runs do not overlap).  A run all of whose listings had a
\* document in the store when it started makes no detail fetch, no
\* summarization request and no insert attempt and adds nothing to the
\* store: it only checks existence, once per listing, and every check it
\* has made found the url present (or the store failed).
C17_AllPresentRunOnlyChecks ==
    \A t \in Runs :
        /\ (/\ Active(t) /\ job_list[t] # <<>>
            /\ \A k \in DOMAIN job_list[t] : StoredByAnother(t, job_list[t][k].url)) =>
              /\ \A k \in Entries(t) :
                    /\ log[t][k].get = 0 /\ log[t][k].post = 0
                    /\ log[t][k].insert_one = 0 /\ log[t][k].find_one <= 1
                    /\ log[t][k].exists \in {"?", "present", "error"}
              /\ \A d \in DOMAIN collection : collection[d]._id[1] # t
        /\ (/\ pc[t] = "returned" /\ Entries(t) # {}
            /\ \A k \in Entries(t) : log[t][k].exists = "present") =>
              /\ \A k \in Entries(t) :
                    /\ log[t][k].get = 0 /\ log[t][k].post = 0
                    /\ log[t][k].insert_one = 0 /\ log[t][k].find_one = 1
              /\ \A d \in DOMAIN collection : collection[d]._id[1] # t

\* C17 witness: the first run stored two listings of different urls; the
\* second run has returned after two existence checks that found them
\* present, with no other call, and the store holds the same two documents.
C17_Witness ==
    /\ Len(collection) = 2
    /\ collection[1]._id = <<1, 1>> /\ collection[2]._id = <<1, 2>>
    /\ collection[1].url # collection[2].url
    /\ pc[2] = "returned" /\ Len(log[2]) = 2
    /\ \A k \in 1..2 :
          /\ log[2][k].exists = "present" /\ log[2][k].find_one = 1
          /\ log[2][k].get = 0 /\ log[2][k].post = 0 /\ log[2][k].insert_one = 0

\* the listing was given up at the detail fetch, the extraction, the
\* summarization or the insert
GivenUp(e) ==
    \/ e.text \in {"error", "empty"}
    \/ e.summary = "none"
    \/ e.stored = "error"

\* C18 (SpecSeq).  A listing given up at the detail fetch, the
\* extraction, the summarization or the insert leaves no document: the
\* store holds exactly the documents of the listings whose insert
\* succeeded.  A run takes a listing for a duplicate only when the store
\* holds a document of its url, so a url whose every processing so far was
\* given up is found absent; a listing found absent goes on to the detail
\* fetch, and one whose steps all succeeded has its document in the store.
C18_GivenUpListingLeavesNoTrace ==
    /\ \A d \in DOMAIN collection :
          /\ collection[d]._id[1] \in Runs
          /\ collection[d]._id[2] \in Entries(collection[d]._id[1])
          /\ log[collection[d]._id[1]][collection[d]._id[2]].stored = "ok"
    /\ \A t \in Runs : \A k \in Entries(t) :
          LET e == log[t][k]
          IN  /\ GivenUp(e) => ~InsertedBy(t, k)
              /\ (e.exists = "present" /\ Active(t)) => InStore(job_list[t][k].url)
              /\ e.exists = "present" =>
                    \E u \in Runs : \E j \in Entries(u) :
                        <<u, j>> # <<t, k>> /\ log[u][j].stored = "ok"
              /\ e.exists = "absent" =>
                    (e.get = 1 \/ (pc[t] = "extract_full_text" /\ job_index[t] = k))
              /\ e.stored = "ok" =>
                    (e.exists = "absent" /\ e.text = "ok" /\ e.summary = "ok"
                     /\ InsertedBy(t, k))

\* C18 witness: the first run gave up its first listing at the
\* summarization and stored nothing; the second run found the first
\* listing's url absent, made every step and stored it.
C18_Witness ==
    /\ pc[1] = "returned" /\ log[1] # <<>> /\ log[1][1].summary = "none"
    /\ \A d \in DOMAIN collection : collection[d]._id[1] # 1
    /\ log[2] # <<>>
    /\ log[2][1].exists = "absent" /\ log[2][1].get = 1 /\ log[2][1].post = 1
    /\ log[2][1].stored = "ok"
    /\ \E d \in DOMAIN collection :
          collection[d]._id = <<2, 1>> /\ collection[d].url = BaseUrl \o <<"1">>

\* the per-listing iterations run t has begun: each begins with the
\* existence check
RECURSIVE Iterations(_, _)
Iterations(t, k) ==
    IF k = 0 THEN 0 ELSE Iterations(t, k - 1) + log[t][k].find_one

\* C19 (SpecLive).  Every started run ends, by returning or by an
\* exception leaving run_scraper, and at no time has a run begun more
\* per-listing iterations than listings were parsed from its index page.
C19_EveryRunTerminates ==
    /\ \A t \in Runs : (pc[t] = "fetch_html") ~> Ended(t)
    /\ [](\A t \in Runs :
             /\ Iterations(t, Len(log[t])) <= Len(log[t])
             /\ (Active(t) /\ pc[t] # "fetch_html") => Len(log[t]) = Len(job_list[t]))

\* C19 witness: both runs have ended; one returned after an iteration for
\* each of its two parsed listings.
C19_Witness ==
    /\ \A t \in Runs : Ended(t)
    /\ \E t \in Runs :
          /\ pc[t] = "returned" /\ index_log[t] = "jobs"
          /\ Len(log[t]) = 2 /\ Iterations(t, 2) = 2
=============================================================================
